---- MODULE Spec2Model ----
(***************************************************************************)
(* Model of the two utility scripts of the repository:                     *)
(*   scripts/package-and-install.js  (PackageInstaller)                    *)
(*   scripts/set-executable.js       (PermissionSetter)                    *)
(* Strings are sequences of one-character strings, so that trimming and    *)
(* path joining are computed and not assumed.  File modes are naturals and *)
(* the bitwise operations are computed bit by bit.                         *)
(***************************************************************************)
EXTENDS Integers, Sequences, FiniteSets, TLC

VARIABLES
    pc,         \* PackageInstaller: the statement the script is about to run
    output,     \* PackageInstaller: stdout captured from `npm pack`
    tgzFile,    \* PackageInstaller: const tgzFile = output.trim()
    disk,       \* PackageInstaller: absolute path of each entry -> "file" | "dir"
    calls,      \* PackageInstaller: trace of child processes and fs calls made
    exitCode,   \* PackageInstaller: exit status once pc = "exited"
    console,    \* PackageInstaller: lines written to stdout / stderr
    idx,        \* PermissionSetter: index of the element forEach is at
    entries,    \* PermissionSetter: per listed path, its entry in the fs
    psLog,      \* PermissionSetter: lines written to stdout / stderr
    startEntries, \* PermissionSetter: the entries when the current run began
    run         \* PermissionSetter: number of the current run of the script

vars == <<pc, output, tgzFile, disk, calls, exitCode, console,
          idx, entries, psLog, startEntries, run>>

installerVars == <<pc, output, tgzFile, disk, calls, exitCode, console>>
setterVars == <<idx, entries, psLog, startEntries, run>>

----------------------------------------------------------------------------
(* Bounds                                                                  *)

\* longest stdout of the packaging command that is enumerated
MaxLen == 3
\* number of consecutive runs of set-executable.js that are followed
MaxRuns == 2

----------------------------------------------------------------------------
(* Strings                                                                 *)

WhiteSpace == {" ", "\n"}
NameChars == {"a", "b"}
Chars == NameChars \cup WhiteSpace

Strings == UNION {[1..n -> Chars] : n \in 0..MaxLen}

RECURSIVE TrimStart(_)
TrimStart(s) ==
    IF s # <<>> /\ Head(s) \in WhiteSpace THEN TrimStart(Tail(s)) ELSE s

RECURSIVE TrimEnd(_)
TrimEnd(s) ==
    IF s # <<>> /\ s[Len(s)] \in WhiteSpace
    THEN TrimEnd(SubSeq(s, 1, Len(s) - 1))
    ELSE s

\* String.prototype.trim
Trim(s) == TrimEnd(TrimStart(s))

\* process.cwd()
Cwd == <<"/", "w">>

\* a faulty variant of PathJoin: the name is passed on without the directory
PathJoinNameOnly(dir, name) == name

\* path.join(dir, name) for a name without separators
PathJoin(dir, name) == IF name = <<>> THEN dir ELSE dir \o <<"/">> \o name

\* the file the operating system looks up for a relative path: the path is
\* taken from the working directory
Resolve(p) == IF p = <<>> THEN Cwd ELSE Cwd \o <<"/">> \o p

\* every name the script can compute
Names == {Trim(s) : s \in Strings}

\* the kind of entry at an absolute path, "none" when there is no entry
Kind(d, p) == IF p \in DOMAIN d THEN d[p] ELSE "none"

\* a faulty variant of ExistsSync: the check always passes
ExistsSyncAlways(d, p) == TRUE

\* fs.existsSync(p): false for the empty path, true for any kind of entry
ExistsSync(d, p) == p # <<>> /\ Kind(d, Resolve(p)) # "none"

\* names made of name characters only: what a tarball is actually called
WordNames == {n \in Names : n # <<>> /\ \A i \in 1..Len(n) : n[i] \in NameChars}

\* the working directory with nothing in it
EmptyDisk == [p \in {Cwd} |-> "dir"]

\* the disk with an entry of kind k put at the absolute path p
WithEntry(d, p, k) == [q \in DOMAIN d \cup {p} |-> IF q = p THEN k ELSE d[q]]

\* one line of console.log / console.error
Line(stream, msg, arg) == [stream |-> stream, msg |-> msg, arg |-> arg]

\* one child process or fs call, with its argument and whether it returned
\* normally (for existsSync: the value it returned)
Call(op, arg, ok) == [op |-> op, arg |-> arg, ok |-> ok]

\* a faulty variant of Catch: the error is logged but the exit status is left at 0
CatchExitZero(logged, message, arg) ==
    /\ console' = console \o logged \o
                      <<Line("stderr", "An error occurred: " \o message, arg)>>
    /\ exitCode' = 0
    /\ pc' = "exited"

\* a faulty variant of Catch: a failed install is logged and the script goes on to
\* the clean-up
CatchContinue(logged, message, arg) ==
    /\ console' = console \o logged \o
                      <<Line("stderr", "An error occurred: " \o message, arg)>>
    /\ exitCode' = 1
    /\ pc' = IF pc = "install" THEN "unlink" ELSE "exited"

\* the catch block: console.error('An error occurred:', error.message);
\* process.exit(1)
Catch(logged, message, arg) ==
    /\ console' = console \o logged \o
                      <<Line("stderr", "An error occurred: " \o message, arg)>>
    /\ exitCode' = 1
    /\ pc' = "exited"

----------------------------------------------------------------------------
(* PackageInstaller: scripts/package-and-install.js                        *)

\* set-executable.js is not running
SetterIdle ==
    /\ idx = 1
    /\ entries = <<>>
    /\ psLog = <<>>
    /\ startEntries = <<>>
    /\ run = 1

InitInstaller ==
    /\ pc = "pack"
    /\ output = <<>>
    /\ tgzFile = <<>>
    /\ \/ disk = EmptyDisk
       \/ \E stale \in WordNames, k \in {"file", "dir"} :
              disk = WithEntry(EmptyDisk, Resolve(stale), k)
    /\ calls = <<>>
    /\ exitCode = 0
    /\ console = <<>>
    /\ SetterIdle

\* what `npm pack` leaves on disk: nothing new, or a tarball (which replaces
\* a file of the same name, and cannot replace a directory)
AfterPack(d, created) ==
    IF created = <<>> \/ Kind(d, Resolve(created)) = "dir" THEN d
    ELSE WithEntry(d, Resolve(created), "file")

\* Step 1: execSync('npm pack', { encoding: 'utf-8' }) and output.trim();
\* execSync throws when the command exits with a non-zero status
Pack ==
    /\ pc = "pack"
    /\ \E created \in WordNames \cup {<<>>} :
          /\ disk' = AfterPack(disk, created)
          /\ \/ \E out \in Strings :
                   /\ calls' = Append(calls, Call("pack", <<>>, TRUE))
                   /\ output' = out
                   /\ tgzFile' = Trim(out)
                   /\ console' = Append(console,
                                    Line("stdout", "Packing the project...", <<>>))
                   /\ pc' = "verify"
                   /\ UNCHANGED exitCode
             \/ /\ calls' = Append(calls, Call("pack", <<>>, FALSE))
                /\ Catch(<<Line("stdout", "Packing the project...", <<>>)>>,
                         "Command failed: npm pack", <<>>)
                /\ UNCHANGED <<output, tgzFile>>
    /\ UNCHANGED setterVars

\* if (!fs.existsSync(tgzFile)) throw new Error(...)
Verify ==
    /\ pc = "verify"
    /\ LET found == ExistsSync(disk, tgzFile) IN
          /\ calls' = Append(calls, Call("existsSync", tgzFile, found))
          /\ IF found
             THEN /\ console' = Append(console,
                                   Line("stdout", "Package created:", tgzFile))
                  /\ pc' = "install"
                  /\ UNCHANGED exitCode
             ELSE Catch(<<>>, "Failed to create .tgz file:", tgzFile)
    /\ UNCHANGED <<output, tgzFile, disk>>
    /\ UNCHANGED setterVars

\* the exit statuses `npm install -g <path>` can have (TRUE: 0): it cannot
\* succeed when there is nothing at the path
InstallOutcomes(d, path) == IF Kind(d, path) = "none" THEN {FALSE} ELSE BOOLEAN

\* Step 2: execSync(`npm install -g ${path.join(process.cwd(), tgzFile)}`)
Install ==
    /\ pc = "install"
    /\ LET path == PathJoin(Cwd, tgzFile) IN
       \E ok \in InstallOutcomes(disk, path) :
          /\ calls' = Append(calls, Call("install", path, ok))
          /\ IF ok
             THEN /\ console' = console \o
                        <<Line("stdout", "Installing the package globally...", <<>>),
                          Line("stdout", "Package installed globally successfully!", <<>>)>>
                  /\ pc' = "unlink"
                  /\ UNCHANGED exitCode
             ELSE Catch(<<Line("stdout", "Installing the package globally...", <<>>)>>,
                        "Command failed: npm install -g", path)
    /\ UNCHANGED <<output, tgzFile, disk>>
    /\ UNCHANGED setterVars

\* a faulty variant of Unlinked: nothing is removed
UnlinkedNothing(d, p) == d

\* the disk after fs.unlinkSync(p) returned normally
Unlinked(d, p) == [q \in DOMAIN d \ {Resolve(p)} |-> d[q]]

\* whether fs.unlinkSync can return normally: only a regular file can be
\* unlinked, and even that can be refused (EPERM, EBUSY)
UnlinkOutcomes(d, p) == IF Kind(d, Resolve(p)) = "file" THEN BOOLEAN ELSE {FALSE}

\* Step 3: fs.unlinkSync(tgzFile); falling off the end exits with status 0
Unlink ==
    /\ pc = "unlink"
    /\ \E ok \in UnlinkOutcomes(disk, tgzFile) :
          /\ calls' = Append(calls, Call("unlinkSync", tgzFile, ok))
          /\ IF ok
             THEN /\ disk' = Unlinked(disk, tgzFile)
                  /\ console' = console \o
                        <<Line("stdout", "Cleaning up...", <<>>),
                          Line("stdout", "Temporary package file removed.", <<>>)>>
                  /\ exitCode' = 0
                  /\ pc' = "exited"
             ELSE /\ Catch(<<Line("stdout", "Cleaning up...", <<>>)>>,
                           "unlink failed:", tgzFile)
                  /\ UNCHANGED disk
    /\ UNCHANGED <<output, tgzFile>>
    /\ UNCHANGED setterVars

NextInstaller == Pack \/ Verify \/ Install \/ Unlink

SpecInstaller == InitInstaller /\ [][NextInstaller]_vars

----------------------------------------------------------------------------
(* PermissionSetter: scripts/set-executable.js                             *)

\* const files = [path.join('bin', 'task-master.js'),
\*                path.join('mcp-server', 'server.js')]
files == <<"bin/task-master.js", "mcp-server/server.js">>

RECURSIVE BitOr(_, _)
\* a | b on naturals
BitOr(a, b) ==
    IF a = 0 THEN b
    ELSE IF b = 0 THEN a
    ELSE (IF a % 2 = 1 \/ b % 2 = 1 THEN 1 ELSE 0)
         + 2 * BitOr(a \div 2, b \div 2)

\* the execute bits of owner, group and other
ExecBits == \o111

\* the file type bits of st_mode for a regular file (S_IFREG)
S_IFREG == \o100000

\* the part of a mode that chmod(2) takes: permission, set-id and sticky bits
ModeMask == \o10000

\* permission bits the listed files are given at the start
PermSample == {\o000, \o111, \o400, \o600, \o644, \o654, \o755, \o4744}

\* an entry of the fs: whether the path exists, its st_mode, and whether the
\* user running the script may change its mode
Entries ==
    {[exists |-> FALSE, mode |-> 0, owned |-> FALSE]} \cup
    {[exists |-> TRUE, mode |-> S_IFREG + p, owned |-> o] :
        p \in PermSample, o \in BOOLEAN}

\* the installer is not running
InstallerIdle ==
    /\ pc = "exited"
    /\ output = <<>>
    /\ tgzFile = <<>>
    /\ disk = EmptyDisk
    /\ calls = <<>>
    /\ exitCode = 0
    /\ console = <<>>

InitSetter ==
    /\ idx = 1
    /\ entries \in [1..Len(files) -> Entries]
    /\ psLog = <<>>
    /\ startEntries = entries
    /\ run = 1
    /\ InstallerIdle

\* fs.statSync(file) throws when the path does not exist
StatThrows(e) == ~e.exists

\* fs.chmodSync(file, mode) throws when the user may not change the mode
ChmodThrows(e) == ~e.owned

\* a faulty variant of NewMode: the execute bits are added arithmetically
NewModePlus(mode) == mode + ExecBits

\* a faulty variant of NewMode: the mode is set to rwxr-xr-x whatever it was
NewMode755(mode) == \o755

\* a faulty variant of NewMode: only the owner's execute bit is set
NewModeOwnerOnly(mode) == BitOr(mode, \o100)

\* stats.mode | 0o111
NewMode(mode) == BitOr(mode, ExecBits)

\* the entry after fs.chmodSync(file, mode) returned: chmod replaces the
\* twelve mode bits and keeps the file type
ChmodSync(e, mode) ==
    [e EXCEPT !.mode = (e.mode - (e.mode % ModeMask)) + (mode % ModeMask)]

\* a faulty variant of AfterCatch: the error leaves forEach and no further path is
\* visited
AfterCatchAbort(i) == Len(files) + 1

\* the element forEach goes to after the callback caught an error at i
AfterCatch(i) == i + 1

\* one call of the forEach callback, on files[idx]
SetExecutable ==
    /\ idx <= Len(files)
    /\ LET file == files[idx]
           e == entries[idx]
       IN IF StatThrows(e) \/ ChmodThrows(e)
          THEN /\ psLog' = Append(psLog,
                      Line("stderr", "Failed to set executable permissions for:", file))
               /\ idx' = AfterCatch(idx)
               /\ UNCHANGED entries
          ELSE /\ entries' = [entries EXCEPT ![idx] = ChmodSync(e, NewMode(e.mode))]
               /\ psLog' = Append(psLog,
                      Line("stdout", "Set executable permissions for:", file))
               /\ idx' = idx + 1
    /\ UNCHANGED <<startEntries, run>>
    /\ UNCHANGED installerVars

\* the script is run again on the file system the last run left
RunAgain ==
    /\ idx > Len(files)
    /\ run < MaxRuns
    /\ run' = run + 1
    /\ idx' = 1
    /\ psLog' = <<>>
    /\ startEntries' = entries
    /\ UNCHANGED entries
    /\ UNCHANGED installerVars

NextSetter == SetExecutable \/ RunAgain

SpecSetter == InitSetter /\ [][NextSetter]_vars

----------------------------------------------------------------------------
(* Properties of PackageInstaller                                          *)

\* there is an entry on disk under this relative name
Present(d, name) == name # <<>> /\ Kind(d, Resolve(name)) # "none"

\* the positions of the trace at which the given call was made
CallsOf(op) == {i \in 1..Len(calls) : calls[i].op = op}

InstallSucceeded == \E i \in CallsOf("install") : calls[i].ok
InstallFailed == \E i \in CallsOf("install") : ~calls[i].ok

\* the order of the four steps
StepOrder == <<"pack", "existsSync", "install", "unlinkSync">>

\* C1: when the file named by the trimmed output of the packaging command is
\* not on disk at the verification step, that step ends the run with exit
\* status 1, no install command and no deletion has been or is made, the disk
\* is left as it is, and an exited run does nothing more.
C1_MissingArchiveStopsRun ==
    [][ /\ (pc = "verify" /\ ~Present(disk, Trim(output))) =>
              /\ pc' = "exited"
              /\ exitCode' = 1
              /\ disk' = disk
              /\ \A i \in 1..Len(calls') :
                     calls'[i].op \notin {"install", "unlinkSync"}
        /\ pc = "exited" => UNCHANGED <<pc, exitCode, disk, calls>> ]_vars

\* a run that stopped at the verification step because the archive was absent
C1_Witness ==
    /\ pc = "exited"
    /\ exitCode = 1
    /\ Len(calls) = 2
    /\ calls[2].op = "existsSync"
    /\ ~Present(disk, Trim(output))

\* C2 as stated: whenever the install command succeeded, the archive is gone
\* when the run has ended.
C2_Original ==
    (pc = "exited" /\ InstallSucceeded) => ~Present(disk, Trim(output))

\* C2 amended: whenever the install command succeeded and the run ended with
\* exit status 0, the archive is gone when the run has ended; when the
\* deletion failed instead, the run ended with exit status 1.
C2_ArchiveRemovedOnSuccess ==
    (pc = "exited" /\ InstallSucceeded) =>
        /\ exitCode = 0 => ~Present(disk, Trim(output))
        /\ exitCode # 0 => \E i \in CallsOf("unlinkSync") : ~calls[i].ok

\* a run that installed, deleted the archive and exited with status 0
C2_Witness ==
    /\ pc = "exited"
    /\ exitCode = 0
    /\ InstallSucceeded
    /\ \E i \in CallsOf("unlinkSync") : calls[i].ok
    /\ ~Present(disk, Trim(output))

\* C3: whenever the install command failed, the run ends with a non-zero exit
\* status, no deletion was attempted and the archive is still on disk.
C3_FailedInstallKeepsArchive ==
    InstallFailed =>
        /\ CallsOf("unlinkSync") = {}
        /\ Present(disk, Trim(output))
        /\ pc = "exited"
        /\ exitCode # 0

\* a run whose install command failed
C3_Witness ==
    /\ pc = "exited"
    /\ InstallFailed
    /\ Len(calls) = 3

\* C4: an exited run has status 0 or 1; it has status 0 exactly when the four
\* steps were all made and all succeeded; a step that failed is the last step
\* made and the status is then 1.
C4_NoPartialSuccess ==
    pc = "exited" =>
        /\ exitCode \in {0, 1}
        /\ exitCode = 0 <=>
              /\ Len(calls) = 4
              /\ \A i \in 1..4 : calls[i].op = StepOrder[i] /\ calls[i].ok
        /\ \A i \in 1..Len(calls) :
              ~calls[i].ok => (i = Len(calls) /\ exitCode = 1)

\* a run whose install succeeded and whose deletion failed
C4_Witness ==
    /\ pc = "exited"
    /\ exitCode = 1
    /\ Len(calls) = 4
    /\ calls[3].ok
    /\ ~calls[4].ok

\* t is s without its leading and trailing white space
IsTrimOf(t, s) ==
    /\ t # <<>> => (t[1] \notin WhiteSpace /\ t[Len(t)] \notin WhiteSpace)
    /\ \E a \in 0..Len(s) :
          /\ a + Len(t) <= Len(s)
          /\ \A k \in 1..Len(s) :
                IF k > a /\ k <= a + Len(t) THEN s[k] = t[k - a]
                ELSE s[k] \in WhiteSpace

\* C8: once the packaging command has returned, the archive name is its
\* output without the surrounding white space; every fs call is made with
\* that name and the install command with the working directory joined with
\* that name, which is the file the fs calls resolve to.  In particular this
\* holds of a run that exits with status 0, which has made all of them.
C8_SameArchiveThroughout ==
    /\ (pc = "exited" /\ exitCode = 0) =>
          /\ CallsOf("existsSync") # {}
          /\ CallsOf("install") # {}
          /\ CallsOf("unlinkSync") # {}
    /\ (CallsOf("pack") # {} /\ calls[1].ok) =>
          /\ IsTrimOf(tgzFile, output)
          /\ \A i \in CallsOf("existsSync") \cup CallsOf("unlinkSync") :
                calls[i].arg = tgzFile
          /\ \A i \in CallsOf("install") :
                /\ calls[i].arg = Cwd \o <<"/">> \o tgzFile
                /\ calls[i].arg = Resolve(tgzFile)

\* a run that exited with status 0 after packing printed a name followed by
\* a newline
C8_Witness ==
    /\ pc = "exited"
    /\ exitCode = 0
    /\ output # tgzFile
    /\ output[Len(output)] = "\n"
    /\ calls[3].arg = Cwd \o <<"/">> \o tgzFile
    /\ ~Present(disk, tgzFile)

\* C9: the calls made are an initial part of pack, existsSync, install,
\* unlinkSync, each made once; every call but the last one made succeeded;
\* and a step that fails leaves the disk as it found it.
C9_StrictSequence ==
    /\ [](/\ Len(calls) <= 4
          /\ \A i \in 1..Len(calls) : calls[i].op = StepOrder[i]
          /\ \A i \in 1..Len(calls) - 1 : calls[i].ok)
    /\ [][ /\ Len(calls') \in {Len(calls), Len(calls) + 1}
           /\ SubSeq(calls', 1, Len(calls)) = calls
           /\ (pc \in {"verify", "install", "unlink"} /\ exitCode' = 1) =>
                  disk' = disk ]_vars

\* a run that made the first three steps and stopped at a failed install,
\* with the archive left where it was
C9_Witness ==
    /\ pc = "exited"
    /\ Len(calls) = 3
    /\ ~calls[3].ok
    /\ Present(disk, tgzFile)
    /\ exitCode = 1

----------------------------------------------------------------------------
(* Properties of PermissionSetter                                          *)

\* bit b of the natural n
Bit(n, b) == (n \div (2 ^ b)) % 2

\* the positions of the execute bits of owner, group and other
ExecBitPositions == {0, 3, 6}

HasExecBits(mode) == \A b \in ExecBitPositions : Bit(mode, b) = 1

\* the run has visited every path of the list
SetterDone == idx > Len(files)

\* the line logged for the k-th path reports a failure
LoggedError(k) == k <= Len(psLog) /\ psLog[k].stream = "stderr"

\* C5 as stated: after the run, every listed path that exists has the three
\* execute bits set.
C5_Original ==
    SetterDone =>
        \A i \in 1..Len(files) :
            entries[i].exists => HasExecBits(entries[i].mode)

\* C5 amended: after the run, every listed path that exists and for which no
\* error was logged has the three execute bits set; a path that exists and
\* lacks one of them is a path whose mode the user may not change.
C5_ExecBitsSetUnlessRefused ==
    SetterDone =>
        \A i \in 1..Len(files) :
            /\ (entries[i].exists /\ ~LoggedError(i)) =>
                   HasExecBits(entries[i].mode)
            /\ (entries[i].exists /\ ~HasExecBits(entries[i].mode)) =>
                   ~entries[i].owned

\* a finished run that gave an existing file its three execute bits
C5_Witness ==
    /\ SetterDone
    /\ \E i \in 1..Len(files) :
          /\ entries[i].exists
          /\ ~HasExecBits(startEntries[i].mode)
          /\ HasExecBits(entries[i].mode)

\* C6: every path visited so far has exactly one line in the log, in the
\* order of the list and naming that path; the line is an error exactly when
\* stat or chmod throws for that path, and a path for which they throw is
\* left as it was.  Every step of a run visits exactly the next path.
C6_FailureIsolatedPerPath ==
    /\ [](/\ idx \in 1..Len(files) + 1
          /\ Len(psLog) = idx - 1
          /\ \A k \in 1..Len(psLog) :
                /\ psLog[k].arg = files[k]
                /\ psLog[k].stream = "stderr" <=>
                      (~startEntries[k].exists \/ ~startEntries[k].owned)
                /\ psLog[k].stream = "stderr" => entries[k] = startEntries[k])
    /\ [][run' = run => idx' = idx + 1]_vars

\* a run in which the first path failed and the second was still processed
\* and succeeded
C6_Witness ==
    /\ SetterDone
    /\ ~startEntries[1].exists
    /\ psLog[1].stream = "stderr"
    /\ psLog[2].stream = "stdout"
    /\ HasExecBits(entries[2].mode)
    /\ ~HasExecBits(startEntries[2].mode)

\* C7: for every path processed without an error, the mode after the run has
\* the three execute bits set and every other bit as it was before the run.
C7_ExactlyExecBitsAdded ==
    \A k \in 1..Len(psLog) :
        psLog[k].stream = "stdout" =>
            \A b \in 0..15 :
                Bit(entries[k].mode, b) =
                    IF b \in ExecBitPositions THEN 1
                    ELSE Bit(startEntries[k].mode, b)

\* two files of mode 0644 that both ended with mode 0755
C7_Witness ==
    /\ SetterDone
    /\ \A i \in 1..Len(files) :
          /\ startEntries[i].mode % ModeMask = \o644
          /\ entries[i].mode % ModeMask = \o755
          /\ psLog[i].stream = "stdout"

\* C10: during and after a second run, every entry is as the first run left
\* it.
C10_SecondRunChangesNothing ==
    run >= 2 => entries = startEntries

\* a finished second run that processed a file the first run had made
\* executable
C10_Witness ==
    /\ run = 2
    /\ SetterDone
    /\ \E i \in 1..Len(files) :
          /\ psLog[i].stream = "stdout"
          /\ HasExecBits(entries[i].mode)

====
